---- MODULE Spec2Model ----
(***************************************************************************)
(* A model of codetool.py: the snippet catalog (get_snippet, doc_link,     *)
(* generate_template, list_languages), the format/lint adapter, the        *)
(* one-shot dispatcher (main), the interactive loop (interactive_cli) and  *)
(* batch_generate_templates.                                               *)
(*                                                                         *)
(* Text is modelled as a sequence of atoms.  An atom is a string that      *)
(* stands for a run of characters of one lexical class: a word fragment    *)
(* ("snippet", "x"), a blank (" ", "\t") or a line end ("\n").  A string   *)
(* literal of the program is one atom.  Words (list elements produced by   *)
(* str.split, process arguments, dictionary keys) are TLA+ strings.        *)
(***************************************************************************)
EXTENDS Integers, Sequences, FiniteSets, TLC

VARIABLES
    pc,         \* position of the process: see each specification
    sys_argv,   \* sys.argv, program name first
    tty,        \* TRUE: stdin is a terminal (end-of-file is transient)
    installed,  \* the optional third-party modules that can be imported
    eof,        \* stdin has reached a permanent end of stream
    out,        \* what was printed so far: records [n, kind, text]
    status,     \* "running" or how the process ended
    lines,      \* the lines returned by input() so far
    pending,    \* the format/lint call waiting for sys.stdin.read()
    lookups,    \* number of catalog lookups performed
    stdinReads, \* number of sys.stdin.read() calls performed
    call,       \* SpecCall: the function applied and its arguments
    result,     \* SpecCall: the value returned
    prev,       \* SpecCall: the value returned by the previous same call
    repeats,    \* SpecCall: how often the call was repeated
    fs,         \* the files of the directory "examples"
    fs0,        \* the files as they were before the batch run
    dirs,       \* the directories that exist
    bi          \* batch_generate_templates: pairs written so far

vars == <<pc, sys_argv, tty, installed, eof, out, status, lines, pending,
          lookups, stdinReads, call, result, prev, repeats,
          fs, fs0, dirs, bi>>

cliVars == <<sys_argv, tty, eof, out, status, lines, pending, lookups,
             stdinReads>>

callVars == <<call, result, prev, repeats>>

batchVars == <<fs, fs0, dirs, bi>>

----------------------------------------------------------------------------
(* Bounds of the model. *)

MaxCodeLen == 3

MaxRepeats == 2

MaxArgs == 3

MaxCmds == 2

MaxPreexisting == 2

----------------------------------------------------------------------------
(* Strings and text. *)

WhitespaceAtoms == {" ", "\t", "\n", "    "}

LineEnds == {"\n"}

\* str.strip() on a text: drops leading and trailing whitespace.
RECURSIVE lstrip(_)
lstrip(t) ==
    IF t # <<>> /\ Head(t) \in WhitespaceAtoms THEN lstrip(Tail(t)) ELSE t

RECURSIVE rstrip(_)
rstrip(t) ==
    IF t # <<>> /\ t[Len(t)] \in WhitespaceAtoms
    THEN rstrip(SubSeq(t, 1, Len(t) - 1))
    ELSE t

strip(t) == rstrip(lstrip(t))

\* str.split(): the maximal runs of non-whitespace, each as one word.
RECURSIVE SplitFrom(_, _, _)
SplitFrom(t, word, inWord) ==
    IF t = <<>> THEN (IF inWord THEN <<word>> ELSE <<>>)
    ELSE IF Head(t) \in WhitespaceAtoms
         THEN (IF inWord THEN <<word>> ELSE <<>>) \o SplitFrom(Tail(t), "", FALSE)
         ELSE SplitFrom(Tail(t), word \o Head(t), TRUE)

split(t) == SplitFrom(t, "", FALSE)

\* str.startswith(prefix), the prefix given as a text.
startswith(t, prefix) ==
    Len(t) >= Len(prefix) /\ SubSeq(t, 1, Len(prefix)) = prefix

\* str.splitlines(keepends=True): every line keeps its line end.
RECURSIVE SplitLinesFrom(_, _)
SplitLinesFrom(t, line) ==
    IF t = <<>> THEN (IF line = <<>> THEN <<>> ELSE <<line>>)
    ELSE IF Head(t) \in LineEnds
         THEN <<Append(line, Head(t))>> \o SplitLinesFrom(Tail(t), <<>>)
         ELSE SplitLinesFrom(Tail(t), Append(line, Head(t)))

splitlines(t) == SplitLinesFrom(t, <<>>)

RECURSIVE Flatten(_)
Flatten(ls) == IF ls = <<>> THEN <<>> ELSE Head(ls) \o Flatten(Tail(ls))

\* ", ".join(words) as one string.
RECURSIVE join(_, _)
join(sep, ws) ==
    IF ws = <<>> THEN ""
    ELSE IF Len(ws) = 1 THEN ws[1]
    ELSE ws[1] \o sep \o join(sep, Tail(ws))

\* dict.get(key, default)
dict_get(d, key, default) == IF key \in DOMAIN d THEN d[key] ELSE default

----------------------------------------------------------------------------
(* The snippet catalog. *)

list_languages == <<"python", "java", "perl", "lua", "kotlin">>

Topics == <<"hello", "function", "class">>

NoSnippet == "# No snippet found for this topic/language."

NoDoc == "# No documentation link found."

NoTemplate == "# Template not available."

snippets ==
    [python |->
        [hello |-> "print(\"Hello, world!\")",
         function |-> "def my_function(arg1, arg2):\n    \"\"\"Example function.\"\"\"\n    return arg1 + arg2",
         class |-> "class MyClass:\n    def __init__(self, value):\n        self.value = value\n    def __str__(self):\n        return f\"MyClass: {self.value}\""],
     java |->
        [hello |-> "public class HelloWorld {\n    public static void main(String[] args) {\n        System.out.println(\"Hello, world!\");\n    }\n}",
         function |-> "public int add(int a, int b) {\n    return a + b;\n}",
         class |-> "public class MyClass {\n    private int value;\n    public MyClass(int value) {\n        this.value = value;\n    }\n    public String toString() {\n        return \"MyClass: \" + value;\n    }\n}"],
     perl |->
        [hello |-> "print \"Hello, world!\\n\";",
         function |-> "sub add {\n    my ($a, $b) = @_;\n    return $a + $b;\n}",
         class |-> "package MyClass;\nsub new {\n    my ($class, $value) = @_;\n    bless { value => $value }, $class;\n}\nsub value {\n    my $self = shift;\n    return $self->{value};\n}\n1;"],
     lua |->
        [hello |-> "print(\"Hello, world!\")",
         function |-> "function add(a, b)\n    return a + b\nend",
         class |-> "MyClass = {}\nMyClass.__index = MyClass\nfunction MyClass:new(value)\n    local inst = setmetatable({}, self)\n    inst.value = value\n    return inst\nend\nfunction MyClass:toString()\n    return \"MyClass: \" .. tostring(self.value)\nend"],
     kotlin |->
        [hello |-> "fun main() {\n    println(\"Hello, world!\")\n}",
         function |-> "fun add(a: Int, b: Int): Int {\n    return a + b\n}",
         class |-> "class MyClass(val value: Int) {\n    override fun toString(): String = \"MyClass: $value\"\n}"]]

\* Mutant: the inner lookup has no default text.
get_snippet_no_default(lang, topic) ==
    dict_get(dict_get(snippets, lang, <<>>), topic, "")

get_snippet(lang, topic) ==
    dict_get(dict_get(snippets, lang, <<>>), topic, NoSnippet)

docs ==
    [python |-> "https://docs.python.org/3/",
     java |-> "https://docs.oracle.com/en/java/",
     perl |-> "https://perldoc.perl.org/",
     lua |-> "https://www.lua.org/manual/5.4/",
     kotlin |-> "https://kotlinlang.org/docs/home.html"]

doc_link(lang, topic) == dict_get(docs, lang, NoDoc)

\* Mutant: the class branch repeats the function branch.
generate_template_copied(lang, kind) ==
    IF kind = "hello" THEN get_snippet(lang, "hello")
    ELSE IF kind = "function" THEN get_snippet(lang, "function")
    ELSE IF kind = "class" THEN get_snippet(lang, "function")
    ELSE NoTemplate

generate_template(lang, kind) ==
    IF kind = "hello" THEN get_snippet(lang, "hello")
    ELSE IF kind = "function" THEN get_snippet(lang, "function")
    ELSE IF kind = "class" THEN get_snippet(lang, "class")
    ELSE NoTemplate

----------------------------------------------------------------------------
(* The format/lint adapter. *)

Indent == "    "

\* Mutant: the predicate accepts every line.
textwrap_indent_all(text, prefix) ==
    LET ls == splitlines(text)
    IN  Flatten([i \in 1..Len(ls) |-> <<prefix>> \o ls[i]])

\* textwrap.indent(text, prefix): the prefix goes before every line that
\* does not consist solely of whitespace (the default predicate).
textwrap_indent(text, prefix) ==
    LET ls == splitlines(text)
    IN  Flatten([i \in 1..Len(ls) |->
                    IF strip(ls[i]) # <<>> THEN <<prefix>> \o ls[i] ELSE ls[i]])

\* The third-party calls are kept symbolic: their result is the call applied
\* to the argument.
autopep8_fix_code(code) == <<"autopep8.fix_code(">> \o code \o <<")">>

pyflakes_check(code) == <<"pyflakes.api.check(">> \o code \o <<")">>

AutopepNotice == <<"# autopep8 not installed, returning original code.", "\n">>

\* Mutant: the python branch falls back to the code alone.
format_code_unchanged(lang, code) ==
    IF lang = "python" /\ "autopep8" \in installed
    THEN autopep8_fix_code(code)
    ELSE IF lang = "java" THEN textwrap_indent(code, Indent)
    ELSE code

format_code(lang, code) ==
    IF lang = "python"
    THEN (IF "autopep8" \in installed THEN autopep8_fix_code(code)
          ELSE AutopepNotice \o code)
    ELSE IF lang = "java" THEN textwrap_indent(code, Indent)
    ELSE code

lint_code(lang, code) ==
    IF lang = "python"
    THEN (IF "pyflakes" \in installed THEN pyflakes_check(code)
          ELSE <<"# pyflakes not installed, skipping lint.">>)
    ELSE <<"# Lint not supported for this language in this demo.">>

----------------------------------------------------------------------------
(* SpecCall: one function of the module applied to arguments drawn from    *)
(* bounded sets, and applied again to the same arguments.                  *)

Range(s) == {s[i] : i \in DOMAIN s}

OptionalModules == {"autopep8", "pyflakes"}

LangWords == Range(list_languages) \cup {"cobol", ""}

TopicWords == Range(Topics) \cup {"main", ""}

CodeAtoms == {"x", " ", "\n"}

Codes == UNION {[1..n -> CodeAtoms] : n \in 0..MaxCodeLen}

AdapterLangs == {"python", "java", "lua", "cobol"}

CallInputs ==
    [fn : {"get_snippet", "generate_template"}, lang : LangWords, arg : TopicWords]
    \cup [fn : {"doc_link"}, lang : LangWords, arg : {""}]
    \cup [fn : {"format_code", "lint_code"}, lang : AdapterLangs, arg : Codes]
    \cup [fn : {"list_languages"}, lang : {""}, arg : {""}]

NoValue == [returned |-> FALSE]

Returned(v) == [returned |-> TRUE, value |-> v]

NoPending == [fn |-> "", lang |-> ""]

CliIdle ==
    /\ sys_argv = <<"codetool.py">>
    /\ tty = FALSE
    /\ eof = FALSE
    /\ out = <<>>
    /\ status = "running"
    /\ lines = <<>>
    /\ pending = NoPending
    /\ lookups = 0
    /\ stdinReads = 0

CallIdle ==
    /\ call = [fn |-> "list_languages", lang |-> "", arg |-> ""]
    /\ result = NoValue
    /\ prev = NoValue
    /\ repeats = 0

NoFile == [exists |-> FALSE, data |-> ""]

BatchIdle ==
    /\ fs = <<>>
    /\ fs0 = <<>>
    /\ dirs = {}
    /\ bi = 0

InitCall ==
    /\ pc = "call"
    /\ call \in CallInputs
    /\ result = NoValue
    /\ prev = NoValue
    /\ repeats = 0
    /\ CliIdle
    /\ installed \in SUBSET OptionalModules
    /\ BatchIdle

Return(fn, v) ==
    /\ call.fn = fn
    /\ pc \in {"call", "returned"}
    /\ repeats < MaxRepeats
    /\ prev' = result
    /\ result' = Returned(v)
    /\ repeats' = repeats + 1
    /\ pc' = "returned"
    /\ UNCHANGED <<call, cliVars, installed, batchVars>>

CallListLanguages == Return("list_languages", list_languages)

CallGetSnippet == Return("get_snippet", get_snippet(call.lang, call.arg))

CallDocLink == Return("doc_link", doc_link(call.lang, call.arg))

CallGenerateTemplate ==
    Return("generate_template", generate_template(call.lang, call.arg))

CallFormatCode == Return("format_code", format_code(call.lang, call.arg))

CallLintCode == Return("lint_code", lint_code(call.lang, call.arg))

NextCall ==
    \/ CallListLanguages
    \/ CallGetSnippet
    \/ CallDocLink
    \/ CallGenerateTemplate
    \/ CallFormatCode
    \/ CallLintCode

SpecCall == InitCall /\ [][NextCall]_vars

----------------------------------------------------------------------------
(* Claims about the catalog and the adapter, under SpecCall. *)

CallReturned(fn) == pc = "returned" /\ call.fn = fn

Supported(lang, topic) ==
    /\ lang \in {"python", "java", "perl", "lua", "kotlin"}
    /\ topic \in {"hello", "function", "class"}

\* C1: get_snippet returns for every (language, topic): for a supported
\* pair a non-empty string, the same on every call; for any other pair
\* exactly "# No snippet found for this topic/language.".
C1_GetSnippetTotal ==
    CallReturned("get_snippet") =>
        /\ result.returned
        /\ IF Supported(call.lang, call.arg)
           THEN result.value \in STRING /\ result.value # ""
           ELSE result.value = "# No snippet found for this topic/language."
        /\ (repeats >= 2 => prev = result)

C1_Witness ==
    /\ CallReturned("get_snippet")
    /\ call.lang = "kotlin"
    /\ call.arg = "class"
    /\ repeats >= 2

PythonWithoutAutopep8 ==
    /\ CallReturned("format_code")
    /\ call.lang = "python"
    /\ "autopep8" \notin installed

\* C7 as claimed: without autopep8, format_code("python", code) returns code
\* unchanged, nothing added or removed.
C7_PythonUnchanged ==
    PythonWithoutAutopep8 => result.value = call.arg

\* C7 as amended: without autopep8, format_code("python", code) returns the
\* notice line "# autopep8 not installed, returning original code." followed
\* by code unchanged, and it does not raise.
C7_PythonNoticeThenCode ==
    PythonWithoutAutopep8 =>
        /\ result.returned
        /\ result.value =
             <<"# autopep8 not installed, returning original code.", "\n">>
                \o call.arg

C7_Witness == PythonWithoutAutopep8 /\ call.arg = <<"x", "\n", "x">>

HasNonBlank(line) == \E i \in 1..Len(line) : line[i] \notin {" ", "\t", "\n"}

\* C8 as claimed: format_code("java", code) puts four spaces before every
\* line of code, empty and whitespace-only lines included; every language
\* other than python and java gets code back unchanged.
C8_JavaIndentsEveryLine ==
    (CallReturned("format_code") /\ call.lang # "python") =>
        LET ins == splitlines(call.arg)
            outs == splitlines(result.value)
        IN  IF call.lang = "java"
            THEN /\ Len(outs) = Len(ins)
                 /\ \A i \in 1..Len(ins) : outs[i] = <<"    ">> \o ins[i]
            ELSE result.value = call.arg

\* C8 as amended: format_code("java", code) puts four spaces before every
\* line of code that holds a non-whitespace character and leaves the empty
\* and whitespace-only lines as they are, nothing else changes; every
\* language other than python and java gets code back unchanged.
C8_JavaIndentsNonBlankLines ==
    (CallReturned("format_code") /\ call.lang # "python") =>
        LET ins == splitlines(call.arg)
            outs == splitlines(result.value)
        IN  IF call.lang = "java"
            THEN /\ Len(outs) = Len(ins)
                 /\ \A i \in 1..Len(ins) :
                        outs[i] = IF HasNonBlank(ins[i])
                                  THEN <<"    ">> \o ins[i]
                                  ELSE ins[i]
            ELSE result.value = call.arg

C8_Witness ==
    /\ CallReturned("format_code")
    /\ call.lang = "java"
    /\ call.arg = <<"x", "\n", "\n">>
    /\ result.value = <<"    ", "x", "\n", "\n">>

----------------------------------------------------------------------------
(* The command dispatcher: what both entry modes share. *)

Usage ==
    [snippet |-> "Usage: snippet <lang> <topic>",
     template |-> "Usage: template <lang> <kind>",
     format |-> "Usage: format <lang>",
     lint |-> "Usage: lint <lang>",
     doc |-> "Usage: doc <lang>"]

PastePrompt == "Paste code, then Ctrl-D (EOF):"

SupportedLine == "Supported languages: " \o join(", ", list_languages)

\* print(s): one record of the output, tagged with the statement's role.
P(kind, s) == [kind |-> kind, text |-> <<s>>]

\* The records a command printed, tagged with the number of the command.
Tag(prints, n) ==
    [i \in 1..Len(prints) |->
        [n |-> n, kind |-> prints[i].kind, text |-> prints[i].text]]

Outcome(prints, st, nextpc, pend, looks) ==
    [prints |-> prints, status |-> st, pc |-> nextpc, pending |-> pend,
     lookups |-> looks]

\* The payload sys.stdin.read() returns.
Payloads == {<<>>, <<"x", "\n">>, <<"\n", " ", "x">>}

\* format_code / lint_code on the payload just read.
RunPending(pend, code) ==
    IF pend.fn = "format_code" THEN format_code(pend.lang, code)
    ELSE lint_code(pend.lang, code)

----------------------------------------------------------------------------
(* SpecOneShot: main() started with at least one argument. *)

\* Mutant: the usage branch exits with status 0.
UsageExit_status0(verb) ==
    Outcome(<<P("usage", Usage[verb])>>, "exit0", "exited", NoPending, 0)

\* print("Usage: ..."); sys.exit(1)
UsageExit(verb) ==
    Outcome(<<P("usage", Usage[verb])>>, "exit1", "exited", NoPending, 0)

\* main() with len(sys.argv) >= 2, up to its return, its sys.exit or its
\* sys.stdin.read().  argv[1] is sys.argv[0].
main_dispatch(argv) ==
    LET verb == argv[2]
        n == Len(argv)
    IN  IF verb = "snippet" THEN
            IF n # 4 THEN UsageExit("snippet")
            ELSE Outcome(<<P("result", get_snippet(argv[3], argv[4]))>>,
                         "exit0", "exited", NoPending, 1)
        ELSE IF verb = "template" THEN
            IF n # 4 THEN UsageExit("template")
            ELSE Outcome(<<P("result", generate_template(argv[3], argv[4]))>>,
                         "exit0", "exited", NoPending, 1)
        ELSE IF verb = "format" THEN
            IF n # 3 THEN UsageExit("format")
            ELSE Outcome(<<P("paste", PastePrompt)>>, "running", "payload",
                         [fn |-> "format_code", lang |-> argv[3]], 0)
        ELSE IF verb = "lint" THEN
            IF n # 3 THEN UsageExit("lint")
            ELSE Outcome(<<P("paste", PastePrompt)>>, "running", "payload",
                         [fn |-> "lint_code", lang |-> argv[3]], 0)
        ELSE IF verb = "doc" THEN
            IF n # 3 THEN UsageExit("doc")
            ELSE Outcome(<<P("result", doc_link(argv[3], ""))>>,
                         "exit0", "exited", NoPending, 1)
        ELSE IF verb = "langs" THEN
            Outcome(<<P("langs", SupportedLine)>>, "exit0", "exited",
                    NoPending, 0)
        ELSE
            Outcome(<<P("error", "Unknown command. Try running with no arguments for interactive mode.")>>,
                    "exit0", "exited", NoPending, 0)

VerbWords ==
    {"snippet", "template", "format", "lint", "doc", "langs", "help", "bogus"}

ArgWords == {"python", "java", "cobol", "hello", "main"}

ArgLists == UNION {[1..n -> ArgWords] : n \in 0..MaxArgs}

InitOneShot ==
    /\ pc = "start"
    /\ \E verb \in VerbWords, args \in ArgLists :
            sys_argv = <<"codetool.py", verb>> \o args
    /\ tty \in BOOLEAN
    /\ installed \in SUBSET OptionalModules
    /\ eof = FALSE
    /\ out = <<>>
    /\ status = "running"
    /\ lines = <<>>
    /\ pending = NoPending
    /\ lookups = 0
    /\ stdinReads = 0
    /\ CallIdle
    /\ BatchIdle

MainOneShot ==
    /\ pc = "start"
    /\ Len(sys_argv) >= 2
    /\ LET d == main_dispatch(sys_argv)
       IN  /\ out' = out \o Tag(d.prints, 0)
           /\ status' = d.status
           /\ pc' = d.pc
           /\ pending' = d.pending
           /\ lookups' = lookups + d.lookups
    /\ UNCHANGED <<sys_argv, tty, installed, eof, lines, stdinReads,
                   callVars, batchVars>>

\* code = sys.stdin.read(); print(format_code(lang, code)) and the return
\* of main().
MainReadPayload ==
    /\ pc = "payload"
    /\ Len(sys_argv) >= 2
    /\ \E code \in Payloads :
            out' = Append(out, [n |-> 0, kind |-> "result",
                                text |-> RunPending(pending, code)])
    /\ stdinReads' = stdinReads + 1
    /\ eof' = ~tty
    /\ pending' = NoPending
    /\ status' = "exit0"
    /\ pc' = "exited"
    /\ UNCHANGED <<sys_argv, tty, installed, lines, lookups, callVars,
                   batchVars>>

NextOneShot == MainOneShot \/ MainReadPayload

SpecOneShot == InitOneShot /\ [][NextOneShot]_vars

----------------------------------------------------------------------------
(* Claims about the one-shot mode, under SpecOneShot. *)

ArgVerbs == {"snippet", "template", "format", "lint", "doc"}

\* The number of arguments each verb takes.
Arity(verb) == IF verb \in {"snippet", "template"} THEN 2 ELSE 1

ExpectedUsage(verb) ==
    CASE verb = "snippet" -> "Usage: snippet <lang> <topic>"
      [] verb = "template" -> "Usage: template <lang> <kind>"
      [] verb = "format" -> "Usage: format <lang>"
      [] verb = "lint" -> "Usage: lint <lang>"
      [] verb = "doc" -> "Usage: doc <lang>"

OfKind(kind) == SelectSeq(out, LAMBDA r : r.kind = kind)

OneShotVerb(verbs) ==
    /\ Len(sys_argv) >= 2
    /\ pc # "start"
    /\ sys_argv[2] \in verbs

----------------------------------------------------------------------------
(* SpecInteractive: main() started without arguments, interactive_cli(). *)

HelpText == "\nCommands:\n    snippet <lang> <topic>   - Show code snippet (topics: hello, function, class)\n    format <lang>            - Format code from stdin (end with EOF)\n    lint <lang>              - Lint code from stdin (end with EOF)\n    doc <lang>               - Show documentation link\n    template <lang> <kind>   - Generate starter template (hello, function, class)\n    langs                    - List supported languages\n    help                     - Show this help\n    exit                     - Quit\n"

Rule == "======================================================================"

print_header(title) == <<P("banner", Rule), P("banner", title), P("banner", Rule)>>

Banner ==
    print_header("CodeTool - Interactive Code Helper")
        \o <<P("banner", SupportedLine),
             P("banner", "Type 'help' for commands, 'exit' to quit.")>>

\* Mutant: the exit branch does not leave the loop.
ExitOutcome_no_break ==
    Outcome(<<P("bye", "Goodbye!")>>, "running", "prompt", NoPending, 0)

\* print("Goodbye!"); break, after which interactive_cli and main return.
ExitOutcome ==
    Outcome(<<P("bye", "Goodbye!")>>, "exit0", "done", NoPending, 0)

Continue(prints, looks) == Outcome(prints, "running", "prompt", NoPending, looks)

\* One pass of the loop body on the line input() returned, up to the next
\* input() or to sys.stdin.read().
interactive_dispatch(line) ==
    LET cmd == strip(line)
        parts == split(cmd)
    IN  IF cmd = <<"exit">> THEN ExitOutcome
        ELSE IF cmd = <<"help">> THEN Continue(<<P("help", HelpText)>>, 0)
        ELSE IF startswith(cmd, <<"langs">>) THEN
            Continue(<<P("langs", SupportedLine)>>, 0)
        ELSE IF startswith(cmd, <<"snippet", " ">>) THEN
            IF Len(parts) # 3 THEN Continue(<<P("usage", Usage["snippet"])>>, 0)
            ELSE Continue(<<P("result", get_snippet(parts[2], parts[3]))>>, 1)
        ELSE IF startswith(cmd, <<"template", " ">>) THEN
            IF Len(parts) # 3 THEN Continue(<<P("usage", Usage["template"])>>, 0)
            ELSE Continue(<<P("result", generate_template(parts[2], parts[3]))>>, 1)
        ELSE IF startswith(cmd, <<"format", " ">>) THEN
            IF Len(parts) # 2 THEN Continue(<<P("usage", Usage["format"])>>, 0)
            ELSE Outcome(<<P("paste", PastePrompt)>>, "running", "payload",
                         [fn |-> "format_code", lang |-> parts[2]], 0)
        ELSE IF startswith(cmd, <<"lint", " ">>) THEN
            IF Len(parts) # 2 THEN Continue(<<P("usage", Usage["lint"])>>, 0)
            ELSE Outcome(<<P("paste", PastePrompt)>>, "running", "payload",
                         [fn |-> "lint_code", lang |-> parts[2]], 0)
        ELSE IF startswith(cmd, <<"doc", " ">>) THEN
            IF Len(parts) # 2 THEN Continue(<<P("usage", Usage["doc"])>>, 0)
            ELSE Continue(<<P("result", doc_link(parts[2], ""))>>, 1)
        ELSE Continue(<<P("error", "Unknown command. Type 'help'.")>>, 0)

\* The words of a line typed with one blank between them.
RECURSIVE Spaced(_)
Spaced(ws) ==
    IF ws = <<>> THEN <<>>
    ELSE IF Len(ws) = 1 THEN <<ws[1]>>
    ELSE <<ws[1], " ">> \o Spaced(Tail(ws))

WordLines ==
    {<<"exit">>, <<"exit", "now">>, <<"help">>, <<"bogus">>,
     <<"langs">>, <<"langs", "x">>,
     <<"doc">>, <<"doc", "lua">>, <<"doc", "cobol">>, <<"doc", "lua", "x">>,
     <<"snippet">>, <<"snippet", "python">>, <<"snippet", "python", "hello">>,
     <<"snippet", "python", "main">>, <<"snippet", "python", "hello", "x">>,
     <<"template">>, <<"template", "java">>, <<"template", "java", "class">>,
     <<"template", "java", "main">>,
     <<"format">>, <<"format", "java">>, <<"format", "python">>,
     <<"format", "java", "x">>,
     <<"lint">>, <<"lint", "python">>, <<"lint", "lua", "x">>}

OddLines ==
    {<<>>, <<" ", "exit", " ">>, <<"langs", "x">>, <<"doc", " ">>,
     <<"snippet", " ", " ", "python", "\t", "hello">>}

Lines == {Spaced(ws) : ws \in WordLines} \cup OddLines

InitInteractive ==
    /\ pc = "start"
    /\ sys_argv = <<"codetool.py">>
    /\ tty \in BOOLEAN
    /\ installed \in {{}, OptionalModules}
    /\ eof = FALSE
    /\ out = <<>>
    /\ status = "running"
    /\ lines = <<>>
    /\ pending = NoPending
    /\ lookups = 0
    /\ stdinReads = 0
    /\ CallIdle
    /\ BatchIdle

MainInteractive ==
    /\ pc = "start"
    /\ Len(sys_argv) = 1
    /\ out' = out \o Tag(Banner, 0)
    /\ pc' = "prompt"
    /\ UNCHANGED <<sys_argv, tty, installed, eof, status, lines, pending,
                   lookups, stdinReads, callVars, batchVars>>

PromptRecord(n) == [n |-> n, kind |-> "prompt", text |-> <<"codetool> ">>]

\* cmd = input("codetool> ").strip() returns a line, and the loop body runs.
ReadCommand ==
    /\ pc = "prompt"
    /\ ~eof
    /\ Len(lines) < MaxCmds
    /\ \E line \in Lines :
        LET d == interactive_dispatch(line)
            n == Len(lines) + 1
        IN  /\ lines' = Append(lines, line)
            /\ out' = Append(out, PromptRecord(n)) \o Tag(d.prints, n)
            /\ status' = d.status
            /\ pc' = d.pc
            /\ pending' = d.pending
            /\ lookups' = lookups + d.lookups
    /\ UNCHANGED <<sys_argv, tty, installed, eof, stdinReads, callVars,
                   batchVars>>

\* input() finds the end of the input (the end of a redirected stream, or
\* Ctrl-D on a terminal) and raises EOFError, which nothing catches.
ReadEOF ==
    /\ pc = "prompt"
    /\ out' = Append(out, PromptRecord(Len(lines) + 1))
    /\ eof' = IF tty THEN eof ELSE TRUE
    /\ status' = "EOFError"
    /\ pc' = "crashed"
    /\ UNCHANGED <<sys_argv, tty, installed, lines, pending, lookups,
                   stdinReads, callVars, batchVars>>

\* code = sys.stdin.read() returns at end of file, and the result is
\* printed.  A redirected stream is then at its end for good; a terminal
\* delivers the next line after Ctrl-D.
CliReadPayload ==
    /\ pc = "payload"
    /\ Len(sys_argv) = 1
    /\ \E code \in Payloads :
            out' = Append(out, [n |-> Len(lines), kind |-> "result",
                                text |-> RunPending(pending, code)])
    /\ stdinReads' = stdinReads + 1
    /\ eof' = ~tty
    /\ pending' = NoPending
    /\ pc' = "prompt"
    /\ UNCHANGED <<sys_argv, tty, installed, status, lines, lookups,
                   callVars, batchVars>>

NextInteractive ==
    \/ MainInteractive
    \/ ReadCommand
    \/ ReadEOF
    \/ CliReadPayload

SpecInteractive == InitInteractive /\ [][NextInteractive]_vars

----------------------------------------------------------------------------
(* Claims about the interactive mode, under SpecInteractive. *)

Interactive == Len(sys_argv) = 1 /\ pc # "start"

\* What command k printed, the prompt that asked for it left out.
Resp(k) == SelectSeq(out, LAMBDA r : r.n = k /\ r.kind # "prompt")

Texts(rs) == [i \in 1..Len(rs) |-> rs[i].text]

IsExit(line) == split(line) = <<"exit">>

ExitRead == \E k \in 1..Len(lines) : IsExit(lines[k])

\* C4 as claimed: as long as no line read is `exit`, a completed format or
\* lint command that has read its payload leaves the loop running and able
\* to read the next command.
C4_LoopReadsOnAfterPayload ==
    (Interactive /\ stdinReads > 0 /\ ~ExitRead) =>
        /\ pc \in {"prompt", "payload"}
        /\ ~eof

\* C5: every command's response is printed, in input order, before the
\* next line is read; once `exit` is read "Goodbye!" is the last output and
\* the loop has ended with no further line read; `doc lua` then `exit`
\* prints the Lua manual URL, then "Goodbye!".
C5_ResponsesInOrderGoodbyeLast ==
    Interactive =>
        /\ \A i, j \in 1..Len(out) : i < j => out[i].n <= out[j].n
        /\ \A k \in 1..Len(lines) :
              (k < Len(lines) \/ pc # "payload") =>
                  \E i \in 1..Len(out) :
                      out[i].n = k /\ out[i].kind \notin {"prompt", "paste"}
        /\ ExitRead =>
              /\ IsExit(lines[Len(lines)])
              /\ \A k \in 1..(Len(lines) - 1) : ~IsExit(lines[k])
              /\ pc = "done"
              /\ out[Len(out)].text = <<"Goodbye!">>
              /\ ~ENABLED NextInteractive
        /\ lines = <<<<"doc", " ", "lua">>, <<"exit">>>> =>
              Texts(Resp(1) \o Resp(2)) =
                  <<<<"https://www.lua.org/manual/5.4/">>, <<"Goodbye!">>>>

C5_Witness ==
    /\ Interactive
    /\ lines = <<<<"doc", " ", "lua">>, <<"exit">>>>
    /\ pc = "done"

WrongCount(line) ==
    LET ws == split(line)
    IN  /\ ws # <<>>
        /\ ws[1] \in ArgVerbs
        /\ Len(ws) - 1 # Arity(ws[1])

\* C6 as claimed: in interactive mode a line whose verb is snippet,
\* template, format, lint or doc with a wrong argument count (the bare verb
\* included) prints that verb's usage string, performs no lookup, reads no
\* payload, and the loop continues.
C6_WrongCountPrintsUsage ==
    (Interactive /\ \A k \in 1..Len(lines) : WrongCount(lines[k])) =>
        /\ \A k \in 1..Len(lines) :
              Texts(Resp(k)) = <<<<ExpectedUsage(split(lines[k])[1])>>>>
        /\ lookups = 0
        /\ stdinReads = 0
        /\ pc \in {"prompt", "crashed"}

PlainCommand(line) ==
    LET ws == split(line)
    IN  /\ ws # <<>>
        /\ ws[1] \in {"snippet", "template", "doc", "langs"}
        /\ line = Spaced(ws)

\* C10 as claimed: for a command of the verbs snippet, template, doc, langs
\* with any number of arguments, the interactive loop prints for the line
\* what the one-shot invocation prints for the same words, whatever
\* commands came before it.
C10_ModesAgree ==
    Interactive =>
        \A k \in 1..Len(lines) :
            PlainCommand(lines[k]) =>
                Texts(Resp(k)) =
                    Texts(main_dispatch(<<"codetool.py">> \o split(lines[k])).prints)

----------------------------------------------------------------------------
(* SpecBatch: batch_generate_templates() over a directory that may already *)
(* hold files.                                                             *)

BatchKinds == <<"hello", "function", "class">>

\* The (lang, kind) pairs in the order the two loops visit them.
BatchPairs ==
    [i \in 1..(Len(list_languages) * Len(BatchKinds)) |->
        <<list_languages[((i - 1) \div Len(BatchKinds)) + 1],
          BatchKinds[((i - 1) % Len(BatchKinds)) + 1]>>]

\* f"examples/{lang}_{kind}.txt"
fname(lang, kind) == "examples/" \o lang \o "_" \o kind \o ".txt"

OtherFile == "examples/notes.txt"

TemplateNames == {fname(p[1], p[2]) : p \in Range(BatchPairs)}

\* The path "examples" itself, when it is a regular file.
ExamplesPath == "examples"

FileNames == TemplateNames \cup {OtherFile, ExamplesPath}

OldData == {"stale", ""}

\* Mutant: the file is opened for appending.
open_a_write(files, name, data) ==
    [files EXCEPT ![name] = [exists |-> TRUE, data |-> files[name].data \o data]]

\* with open(name, 'w') as f: f.write(data): created or truncated.
open_w_write(files, name, data) ==
    [files EXCEPT ![name] = [exists |-> TRUE, data |-> data]]

InitBatch ==
    /\ pc = "batch"
    /\ bi = 0
    /\ \/ \E S \in {T \in SUBSET (TemplateNames \cup {OtherFile}) :
                        Cardinality(T) <= MaxPreexisting} :
            \E d \in [S -> OldData] :
               /\ fs = [n \in FileNames |->
                           IF n \in S THEN [exists |-> TRUE, data |-> d[n]]
                           ELSE NoFile]
               /\ dirs \in (IF S = {} THEN {{}, {"examples"}}
                                      ELSE {{"examples"}})
       \/ /\ fs = [n \in FileNames |->
                       IF n = ExamplesPath
                       THEN [exists |-> TRUE, data |-> "stale"]
                       ELSE NoFile]
          /\ dirs = {}
    /\ fs0 = fs
    /\ CliIdle
    /\ installed = {}
    /\ CallIdle

\* One pass of the inner loop body.
BatchWrite ==
    /\ pc = "batch"
    /\ bi < Len(BatchPairs)
    /\ ~fs[ExamplesPath].exists
    /\ LET lang == BatchPairs[bi + 1][1]
           kind == BatchPairs[bi + 1][2]
       IN  /\ dirs' = dirs \cup {"examples"}
           /\ fs' = open_w_write(fs, fname(lang, kind), generate_template(lang, kind))
    /\ bi' = bi + 1
    /\ pc' = IF bi + 1 = Len(BatchPairs) THEN "batchdone" ELSE "batch"
    /\ UNCHANGED <<fs0, cliVars, installed, callVars>>

\* os.makedirs("examples", exist_ok=True) finds a regular file of that
\* name and raises FileExistsError, which nothing catches.
BatchMakedirsFails ==
    /\ pc = "batch"
    /\ fs[ExamplesPath].exists
    /\ pc' = "batchfailed"
    /\ UNCHANGED <<batchVars, cliVars, installed, callVars>>

NextBatch == BatchWrite \/ BatchMakedirsFails

SpecBatch == InitBatch /\ [][NextBatch]_vars

----------------------------------------------------------------------------
(* Claims about the batch mode, under SpecBatch. *)

TemplateFile(lang, kind) == "examples/" \o lang \o "_" \o kind \o ".txt"

\* C9: after batch_generate_templates the directory "examples" holds one
\* file "<language>_<kind>.txt" for each of the 15 (language, kind) pairs,
\* each holding generate_template(language, kind) whatever a file of that
\* name held before; the other files of the directory are as they were.
C9_BatchWritesEveryTemplate ==
    pc = "batchdone" =>
        LET langs == {"python", "java", "perl", "lua", "kotlin"}
            kinds == {"hello", "function", "class"}
            names == {TemplateFile(l, k) : l \in langs, k \in kinds}
        IN  /\ "examples" \in dirs
            /\ Cardinality(names) = 15
            /\ \A l \in langs, k \in kinds :
                  fs[TemplateFile(l, k)] =
                      [exists |-> TRUE, data |-> generate_template(l, k)]
            /\ \A n \in DOMAIN fs \ names : fs[n] = fs0[n]

C9_Witness ==
    /\ pc = "batchdone"
    /\ fs0["examples/lua_class.txt"] = [exists |-> TRUE, data |-> "stale"]
    /\ fs0["examples/notes.txt"].exists
    /\ fs["examples/lua_class.txt"].data = get_snippet("lua", "class")

====
